---- MODULE Spec2Model ----
(***************************************************************************)
(* Weblate's steps of the Python Social Auth pipeline                      *)
(* (weblate/accounts/pipeline.py), as a state machine.                     *)
(*                                                                         *)
(* Two specifications share the step definitions:                          *)
(*   SpecSteps  every step function applied once to inputs drawn from      *)
(*              bounded sets (the `call` variable holds inputs and result) *)
(*   Spec       attempts running the ordered pipeline against the shared   *)
(*              stores, with suspension and resumption                     *)
(***************************************************************************)
EXTENDS Integers, Sequences, FiniteSets, TLC

\* ------------------------------------------------------------------ bounds
MaxUser == 2
MaxTime == 3
MaxEntries == 2
TicksPerSecond == 2

\* settings.AUTH_TOKEN_VALID, in seconds
AUTH_TOKEN_VALID == 1

\* ------------------------------------------------------------------ values
NoUser == 0
UserIds == 1..MaxUser
MaybeUser == {NoUser} \cup UserIds

\* None (or a missing key) and the empty string are the two falsy emails
NoEmail == "None"
Emails == {"a@x", "b@x"}
EmailValues == {NoEmail, ""} \cup Emails

Truthy(s) == s # NoEmail /\ s # ""

Actions == {"activation", "reset"}
BackendNames == {"email", "github", "google"}

Times == 0..MaxTime
\* weblate_expires values, in whole seconds
ExpiryValues == 0..((MaxTime \div TicksPerSecond) + AUTH_TOKEN_VALID)

\* ------------------------------------------------------ get_github_email
\* one entry of the JSON list of https://api.github.com/user/emails
GithubEntries == [email : Emails, verified : BOOLEAN, primary : BOOLEAN]

SeqsUpTo(S, n) == UNION {[1..k -> S] : k \in 0..n}

GithubResponses == SeqsUpTo(GithubEntries, MaxEntries)

\* the for loop of get_github_email from entry i on, `email` being the value held
RECURSIVE github_loop(_, _, _)
github_loop(data, i, email) ==
    IF i > Len(data) THEN email
    ELSE IF ~data[i].verified THEN github_loop(data, i + 1, email)
    ELSE IF data[i].primary THEN data[i].email
    ELSE github_loop(data, i + 1, data[i].email)

\* mutant: the first verified entry wins when no primary one follows
RECURSIVE github_loop_keep_first(_, _, _)
github_loop_keep_first(data, i, email) ==
    IF i > Len(data) THEN email
    ELSE IF ~data[i].verified THEN github_loop_keep_first(data, i + 1, email)
    ELSE IF data[i].primary THEN data[i].email
    ELSE github_loop_keep_first(data, i + 1,
                                IF email = NoEmail THEN data[i].email ELSE email)

get_github_email_first(data) == github_loop_keep_first(data, 1, NoEmail)

get_github_email(data) == github_loop(data, 1, NoEmail)

\* --------------------------------------------------------- require_email
\* mutant: the redirect does not look at is_new
require_email_any(backend_name, response, details_email, user, user_email, is_new) ==
    LET fetched == IF backend_name = "github"
                   THEN get_github_email(response) ELSE NoEmail
        email == IF backend_name = "github" /\ fetched # NoEmail
                 THEN fetched ELSE details_email
    IN  IF user # NoUser /\ Truthy(user_email)
        THEN [result |-> "continue", target |-> "",
              email |-> email,
              is_new |-> IF backend_name = "email" THEN TRUE ELSE is_new]
        ELSE IF ~Truthy(email)
        THEN [result |-> "redirect", target |-> "register",
              email |-> email, is_new |-> is_new]
        ELSE [result |-> "continue", target |-> "",
              email |-> email, is_new |-> is_new]

\* The step's outcome: result "continue" (returns None or a dict) or
\* "redirect" (an HTTP redirect, which @partial turns into a suspension);
\* email is details['email'] after the step, is_new the merged is_new.
require_email(backend_name, response, details_email, user, user_email, is_new) ==
    LET fetched == IF backend_name = "github"
                   THEN get_github_email(response) ELSE NoEmail
        email == IF backend_name = "github" /\ fetched # NoEmail
                 THEN fetched ELSE details_email
    IN  IF user # NoUser /\ Truthy(user_email)
        THEN [result |-> "continue", target |-> "",
              email |-> email,
              is_new |-> IF backend_name = "email" THEN TRUE ELSE is_new]
        ELSE IF is_new /\ ~Truthy(email)
        THEN [result |-> "redirect", target |-> "register",
              email |-> email, is_new |-> is_new]
        ELSE [result |-> "continue", target |-> "",
              email |-> email, is_new |-> is_new]

\* ----------------------------------------------------------- verify_open
Usernames == {"demo", "bob", "Bob"}

\* mutant: the session check is skipped for a bound user
verify_open_bound_unchecked(user, username, registration_open, demo_server, request_user, session_user) ==
    IF user = NoUser /\ ~registration_open THEN "AuthException_closed"
    ELSE IF user # NoUser /\ demo_server /\ username = "demo"
    THEN "AuthException_demo"
    ELSE IF user = NoUser /\ request_user # session_user
    THEN "AuthStateForbidden_user"
    ELSE "ok"

\* user: the pipeline's user (NoUser when none is bound), username: its
\* username; request_user: request.user.pk (NoUser for the anonymous user);
\* session_user: request.session.get('social_auth_user')
verify_open(user, username, registration_open, demo_server, request_user, session_user) ==
    IF user = NoUser /\ ~registration_open THEN "AuthException_closed"
    ELSE IF user # NoUser /\ demo_server /\ username = "demo"
    THEN "AuthException_demo"
    ELSE IF request_user # session_user THEN "AuthStateForbidden_user"
    ELSE "ok"

\* ---------------------------------------------------------- ensure_valid
\* `user and user.is_authenticated`: a bound account is always authenticated
current_user_of(user) == IF user # NoUser THEN user ELSE NoUser

\* mutant: the expiry is only checked for activation links
ensure_valid_reset_first(user, registering_user, weblate_action, weblate_expires, t) ==
    IF weblate_action = "reset" THEN "ok"
    ELSE IF weblate_expires * TicksPerSecond < t
    THEN "AuthStateForbidden_expires"
    ELSE IF current_user_of(user) # registering_user
    THEN "AuthStateForbidden_user"
    ELSE "ok"

\* mutant: the user check is left out
ensure_valid_no_user_check(user, registering_user, weblate_action, weblate_expires, t) ==
    IF weblate_expires * TicksPerSecond < t
    THEN "AuthStateForbidden_expires"
    ELSE "ok"

\* mutant: only an anonymous request is compared with registering_user
ensure_valid_bound_unchecked(user, registering_user, weblate_action, weblate_expires, t) ==
    IF weblate_expires * TicksPerSecond < t
    THEN "AuthStateForbidden_expires"
    ELSE IF weblate_action = "reset" THEN "ok"
    ELSE IF user = NoUser /\ current_user_of(user) # registering_user
    THEN "AuthStateForbidden_user"
    ELSE "ok"

\* mutant: a link is refused from the second of its expiry on
ensure_valid_strict(user, registering_user, weblate_action, weblate_expires, t) ==
    IF weblate_expires * TicksPerSecond <= t
    THEN "AuthStateForbidden_expires"
    ELSE IF weblate_action = "reset" THEN "ok"
    ELSE IF current_user_of(user) # registering_user
    THEN "AuthStateForbidden_user"
    ELSE "ok"

\* t is time.time() in ticks of 1/TicksPerSecond s; weblate_expires is in
\* whole seconds
ensure_valid(user, registering_user, weblate_action, weblate_expires, t) ==
    IF weblate_expires * TicksPerSecond < t
    THEN "AuthStateForbidden_expires"
    ELSE IF weblate_action = "reset" THEN "ok"
    ELSE IF current_user_of(user) # registering_user
    THEN "AuthStateForbidden_user"
    ELSE "ok"

\* ----------------------------------------------------------- store_params
\* int(time.time() + settings.AUTH_TOKEN_VALID), t in ticks
store_params(user, session_password_reset, t) ==
    [weblate_action |-> IF session_password_reset THEN "reset"
                        ELSE "activation",
     registering_user |-> current_user_of(user),
     weblate_expires |->
         (t + AUTH_TOKEN_VALID * TicksPerSecond) \div TicksPerSecond]

\* -------------------------------------------------------- verify_username
NoName == ""

\* case folding of username__iexact on the names of the model
Lower(s) == CASE s = "Bob" -> "bob"
              [] s = "Demo" -> "demo"
              [] OTHER -> s

iexact(a, b) == Lower(a) = Lower(b)

\* mutant: the lookup compares the exact name
verify_username_exact(user, username, accts) ==
    IF user # NoUser \/ username = NoName THEN "ok"
    ELSE IF \E i \in 1..Len(accts) : accts[i].username = username
    THEN "AuthAlreadyAssociated"
    ELSE "ok"

\* username: details['username'], NoName when the key is missing
verify_username(user, username, accts) ==
    IF user # NoUser \/ username = NoName THEN "ok"
    ELSE IF \E i \in 1..Len(accts) : iexact(accts[i].username, username)
    THEN "AuthAlreadyAssociated"
    ELSE "ok"

\* ------------------------------------------------------- revoke_mail_code
\* request data without a verification_code
NoCode == 0

MaxCode == 2

\* VerificationCode rows; the code of a row is unique in the store
CodeRows == [code : 1..MaxCode, email : Emails, verified : BOOLEAN]

CodeStores ==
    {st \in SUBSET CodeRows : \A k1, k2 \in st : k1.code = k2.code => k1 = k2}

\* mutant: every verified code of the email is deleted
revoke_mail_code_all(email, code, codes_) ==
    IF Truthy(email) /\ code # NoCode
    THEN codes_ \ {c \in codes_ : c.email = email /\ c.verified}
    ELSE codes_

\* mutant: nothing is deleted
revoke_mail_code_keep(email, code, codes_) == codes_

\* the VerificationCode rows left in the store
revoke_mail_code(email, code, codes_) ==
    IF Truthy(email) /\ code # NoCode
    THEN codes_ \ {c \in codes_ :
                     c.code = code /\ c.email = email /\ c.verified}
    ELSE codes_

\* -------------------------------------------------------- mail_validation
\* mutant: a verification_code in the request data is not looked at
mail_validation_branch_resend(requires_validation, passwordless, email, is_new, code) ==
    IF requires_validation /\ Truthy(email) /\ (is_new \/ passwordless)
    THEN "send"
    ELSE "skip"

\* which branch of mail_validation runs: "skip" (no validation needed),
\* "check" (a verification_code came with the request), "send"
mail_validation_branch(requires_validation, passwordless, email, is_new, code) ==
    IF requires_validation /\ Truthy(email) /\ (is_new \/ passwordless)
    THEN IF code # NoCode THEN "check" ELSE "send"
    ELSE "skip"

\* strategy.validate_email: a stored code for this email is marked verified
validate_email(codes_, email, code) ==
    LET hit == {c \in codes_ : c.code = code /\ c.email = email}
    IN  [ok |-> hit # {},
         codes |-> (codes_ \ hit)
                   \cup {[c EXCEPT !.verified = TRUE] : c \in hit}]

\* -------------------------------------------------------- send_validation
\* mutant: the password_reset flag is read but stays in the session
send_validation_keep_flag(session, code, partial_token) ==
    [session |-> [session EXCEPT !.registration_email_sent = TRUE],
     mail |-> [to |-> code.email,
               template |-> IF session.password_reset THEN "reset"
                            ELSE "activation",
               code |-> code.code,
               token |-> partial_token]]

\* the session after the call and the mail handed to send_notification_email
send_validation(session, code, partial_token) ==
    [session |-> [session EXCEPT !.registration_email_sent = TRUE,
                                 !.password_reset = FALSE],
     mail |-> [to |-> code.email,
               template |-> IF session.password_reset THEN "reset"
                            ELSE "activation",
               code |-> code.code,
               token |-> partial_token]]

\* ------------------------------------------------------------ store_email
\* VerifiedEmail.objects.get_or_create(social=social): the row's id
NoRow == 0

row_of(rows, social) ==
    IF \E r \in rows : r.social = social
    THEN (CHOOSE r \in rows : r.social = social).id
    ELSE NoRow

\* mutant: a changed email is stored in a row of its own
store_email_duplicate(email, social, rows) ==
    IF email = NoEmail
    THEN [result |-> "AuthMissingParameter_email", rows |-> rows]
    ELSE IF \E r \in rows : r.social = social /\ r.email = email
    THEN [result |-> "ok", rows |-> rows]
    ELSE [result |-> "ok",
          rows |-> rows \cup {[id |-> Cardinality(rows) + 1,
                               social |-> social, email |-> email]}]

store_email(email, social, rows) ==
    IF email = NoEmail
    THEN [result |-> "AuthMissingParameter_email", rows |-> rows]
    ELSE LET id == row_of(rows, social)
             got == IF id = NoRow
                    THEN rows \cup {[id |-> Cardinality(rows) + 1,
                                     social |-> social, email |-> ""]}
                    ELSE rows
         IN  [result |-> "ok",
              rows |-> {IF r.social = social /\ r.email # email
                        THEN [r EXCEPT !.email = email] ELSE r : r \in got}]

\* --------------------------------------------------------- password_reset
\* mutant: the password is invalidated whatever the attempt's action is
password_reset_any_action(has_request, user, weblate_action) ==
    has_request /\ user # NoUser

\* whether the step invalidates the password and notifies
password_reset(has_request, user, weblate_action) ==
    has_request /\ user # NoUser /\ weblate_action = "reset"

\* ----------------------------------------------------- adjust_primary_mail
MaxRows == 2

Socials == BackendNames

\* VerifiedEmail rows with the user of their social identity, in the order
\* the store returns them; a social identity has at most one row
VerifiedRows == [social : Socials, user : UserIds, email : Emails]

VerifiedStores ==
    {rows \in SeqsUpTo(VerifiedRows, MaxRows) :
        \A i, j \in 1..Len(rows) : rows[i].social = rows[j].social => i = j}

IsRemaining(r, entries, user) == r.user = user /\ r.social \notin entries

\* VerifiedEmail.objects.filter(social__user=user).exclude(social__in=entries)
remaining_verified(rows, entries, user) ==
    SelectSeq(rows, LAMBDA r : IsRemaining(r, entries, user))

\* mutant: the primary email is reassigned without looking for it first
adjust_primary_mail_always(rows, entries, user, user_email) ==
    LET verified == remaining_verified(rows, entries, user)
    IN  IF Len(verified) = 0
        THEN [result |-> "IndexError", email |-> user_email,
              warning |-> FALSE]
        ELSE [result |-> "ok", email |-> verified[1].email, warning |-> TRUE]

\* result "ok" or the exception raised; email: user.email after the step;
\* warning: whether messages.warning was called
adjust_primary_mail(rows, entries, user, user_email) ==
    LET verified == remaining_verified(rows, entries, user)
    IN  IF \E i \in 1..Len(verified) : verified[i].email = user_email
        THEN [result |-> "ok", email |-> user_email, warning |-> FALSE]
        ELSE IF Len(verified) = 0
        THEN [result |-> "IndexError", email |-> user_email,
              warning |-> FALSE]
        ELSE [result |-> "ok", email |-> verified[1].email, warning |-> TRUE]

\* ------------------------------------------------------- slugify_username
MaxLen == 3

\* a string is a sequence of characters; the characters of the model: a
\* letter, a digit, the underscore, a space, a line feed, the hyphen, the
\* punctuation a username may hold, other punctuation, and non-ASCII
\* characters: one that NFKD decomposes to a letter and an accent, one
\* without an ASCII part, and the no-break space (NFKD: a space)
Chars == {"a", "1", "_", " ", "LF", "-", ".", "@", "+", "!",
          "a_acute", "sharp_s", "nbsp"}

Strings == SeqsUpTo(Chars, MaxLen)

\* unicodedata.normalize('NFKD', c).encode('ascii', 'ignore')
to_ascii_char(c) ==
    CASE c = "a_acute" -> <<"a">>
      [] c = "sharp_s" -> <<>>
      [] c = "nbsp" -> <<" ">>
      [] OTHER -> <<c>>

RECURSIVE to_ascii(_)
to_ascii(v) ==
    IF v = <<>> THEN <<>> ELSE to_ascii_char(Head(v)) \o to_ascii(Tail(v))

\* [\w.@+-] and \s on ASCII text
IsUsernameChar(c) == c \in {"a", "1", "_", ".", "@", "+", "-"}
IsSpace(c) == c \in {" ", "LF"}

\* USERNAME_MATCHER.match(value): ^[\w.@+-]+$, where $ also matches before a
\* line feed that ends the string
username_match(v) ==
    LET body == IF Len(v) > 1 /\ v[Len(v)] = "LF"
                THEN SubSeq(v, 1, Len(v) - 1) ELSE v
    IN  /\ Len(body) > 0
        /\ \A i \in 1..Len(body) : IsUsernameChar(body[i])

IsKept(c) == IsUsernameChar(c) \/ IsSpace(c)

\* STRIP_MATCHER.sub('', value)
strip_chars(v) == SelectSeq(v, IsKept)

\* mutant: only the first unwanted character is removed
RECURSIVE strip_first_char(_)
strip_first_char(v) ==
    IF v = <<>> THEN <<>>
    ELSE IF ~IsKept(Head(v)) THEN Tail(v)
    ELSE <<Head(v)>> \o strip_first_char(Tail(v))

\* str.strip()
RECURSIVE lstrip(_)
lstrip(v) ==
    IF v # <<>> /\ IsSpace(Head(v)) THEN lstrip(Tail(v)) ELSE v

RECURSIVE rstrip(_)
rstrip(v) ==
    IF v # <<>> /\ IsSpace(v[Len(v)])
    THEN rstrip(SubSeq(v, 1, Len(v) - 1)) ELSE v

strip(v) == rstrip(lstrip(v))

IsSeparator(c) == c = "-" \/ IsSpace(c)

RECURSIVE skip_separators(_)
skip_separators(v) ==
    IF v # <<>> /\ IsSeparator(Head(v)) THEN skip_separators(Tail(v)) ELSE v

\* CLEANUP_MATCHER.sub('-', value): each run of [-\s] becomes one hyphen
RECURSIVE cleanup(_)
cleanup(v) ==
    IF v = <<>> THEN <<>>
    ELSE IF IsSeparator(Head(v))
    THEN <<"-">> \o cleanup(skip_separators(Tail(v)))
    ELSE <<Head(v)>> \o cleanup(Tail(v))

\* mutant of slugify_username: STRIP_MATCHER.sub('', value, 1)
slugify_username_strip_once(value) ==
    LET v == to_ascii(value)
    IN  IF username_match(v) THEN v
        ELSE cleanup(strip(strip_first_char(v)))

slugify_username(value) ==
    LET v == to_ascii(value)
    IN  IF username_match(v) THEN v
        ELSE cleanup(strip(strip_chars(v)))

\* ------------------------------------------------------------ cleanup_next
\* strategy.session_get('next'): None when the session has no target
NoNext == "None"
Urls == {"/projects/", "//other.example/", "https://other.example/"}
NextValues == {NoNext, ""} \cup Urls

\* is_safe_url(url): safe is the set of URLs the checker accepts
is_safe_url(url, safe) == url \in safe

\* mutant: every target is cleared
cleanup_next_clear(url, safe) == NoNext

\* the session's 'next' after the step
cleanup_next(url, safe) ==
    IF (url # NoNext /\ url # "") /\ ~is_safe_url(url, safe)
    THEN NoNext
    ELSE url

\* ================================================================= state
MaxBegins == 1
MaxResumes == 2

Clients == {1, 2}

\* Spec serves the requests of one browser, one at a time
SerialClients == {1}

\* SOCIAL_AUTH_PIPELINE: the steps in the order the engine runs them
PIPELINE == <<"store_params", "verify_open", "require_email",
              "mail_validation", "revoke_mail_code", "ensure_valid",
              "verify_username", "create_user", "store_email",
              "password_reset">>

\* backend.REQUIRES_EMAIL_VALIDATION or the FORCE_EMAIL_VALIDATION setting
requires_validation(backend_name) == backend_name = "email"

\* the PASSWORDLESS setting of the backend
passwordless(backend_name) == FALSE

\* the social identity (provider, uid) an attempt of the backend is about
NoSocial == ""
social_of(backend_name) == backend_name

VARIABLES
    call,           \* SpecSteps: the step applied, its inputs and its result
    now,            \* time.time(), in ticks
    settings,       \* REGISTRATION_OPEN, DEMO_SERVER
    accounts,       \* User rows, by pk
    codes,          \* VerificationCode rows
    partials,       \* stored Partials
    mails,          \* verification mails sent
    verified,       \* VerifiedEmail rows
    notifications,  \* account-activity notifications sent
    next_code,      \* the next fresh code
    next_token,     \* the next fresh partial token
    sess,           \* each client's session
    run,            \* each client's current (or last) pass of the pipeline
    begins,         \* the fresh attempts started so far
    resumes         \* the resumptions started so far

flow_vars == <<now, settings, accounts, codes, partials, mails, verified,
               notifications, next_code, next_token, sess, run, begins,
               resumes>>

vars == <<call, flow_vars>>

IdleRun ==
    [status |-> "idle", pc |-> 0, error |-> "", redirect |-> "",
     partial |-> 0, resumed |-> FALSE,
     backend |-> "", user |-> NoUser, is_new |-> FALSE, email |-> NoEmail,
     username |-> NoName, response |-> <<>>, social |-> NoSocial,
     weblate_action |-> "", registering_user |-> NoUser,
     weblate_expires |-> 0,
     code |-> NoCode, token |-> 0, req_user |-> NoUser]

NewSession ==
    [social_auth_user |-> NoUser, password_reset |-> FALSE,
     email_validation_address |-> NoEmail,
     registration_email_sent |-> FALSE]

FlowInit ==
    /\ now = 0
    \* an open deployment, or a demo server closed to registrations
    /\ settings \in {[REGISTRATION_OPEN |-> TRUE, DEMO_SERVER |-> FALSE],
                     [REGISTRATION_OPEN |-> FALSE, DEMO_SERVER |-> TRUE]}
    /\ accounts = <<[username |-> "demo", email |-> "a@x", usable |-> TRUE]>>
    /\ codes = {}
    /\ partials = {}
    /\ mails = {}
    /\ verified = {}
    /\ notifications = <<>>
    /\ next_code = 1
    /\ next_token = 1
    /\ sess = [c \in Clients |-> NewSession]
    /\ run = [c \in Clients |-> IdleRun]
    /\ begins = 0
    /\ resumes = 0

CallInit == call = [fn |-> "idle"]

\* ---------------------------------------------------------------- engine
Ended == {"idle", "suspended", "completed", "aborted", "notfound"}

AtStep(c, name) ==
    /\ run[c].status = "running"
    /\ PIPELINE[run[c].pc] = name

\* the step returned normally: the next step, or Completed after the last
Continue(r) ==
    IF r.pc = Len(PIPELINE)
    THEN [r EXCEPT !.status = "completed", !.pc = r.pc + 1]
    ELSE [r EXCEPT !.pc = r.pc + 1]

\* mutant: the engine swallows the error and goes on with the next step
Abort_swallowed(r, err) == [r EXCEPT !.pc = r.pc + 1]

\* the step raised: Aborted with the error, no step runs after it
Abort(r, err) == [r EXCEPT !.status = "aborted", !.error = err]

\* the step returned a redirect: Suspended, the Partial stored under tok
Suspend(r, tok, target) ==
    [r EXCEPT !.status = "suspended", !.redirect = target, !.partial = tok]

Outcome(r, res) == IF res = "ok" THEN Continue(r) ELSE Abort(r, res)

\* what a Partial keeps: the step to run on resumption and the Context
Snapshot(r, tok) ==
    [token |-> tok, next_step |-> r.pc, backend |-> r.backend, user |-> r.user,
     is_new |-> r.is_new, email |-> r.email, username |-> r.username,
     response |-> r.response, social |-> r.social,
     weblate_action |-> r.weblate_action,
     registering_user |-> r.registering_user,
     weblate_expires |-> r.weblate_expires]

\* the inputs of a fresh attempt: the backend with the email of the
\* provider's details, the request's user with the username of the details,
\* and the session's password_reset flag
FlowResponse == <<[email |-> "b@x", verified |-> TRUE, primary |-> TRUE]>>
FlowProfiles == {<<"email", NoEmail>>, <<"email", "a@x">>,
                 <<"github", NoEmail>>}
FlowIdentities == {<<NoUser, "bob">>, <<NoUser, "Bob">>, <<1, "bob">>}
FlowUsers == {NoUser, 1}
RaceProfiles == {<<"email", "a@x">>, <<"email", "b@x">>}
RaceIdentities == {<<NoUser, "bob">>, <<NoUser, "Bob">>}

NoneRunning == \A d \in Clients : run[d].status # "running"

\* a fresh attempt: the engine builds the Context and runs from the first step
BeginWith(c, profiles, identities, resets) ==
    /\ run[c].status \in Ended
    /\ \E profile \in profiles, identity \in identities, reset \in resets :
        /\ run' = [run EXCEPT ![c] =
                     [IdleRun EXCEPT !.status = "running", !.pc = 1,
                                     !.backend = profile[1],
                                     !.email = profile[2],
                                     !.response = IF profile[1] = "github"
                                                  THEN FlowResponse
                                                  ELSE <<>>,
                                     !.user = identity[1],
                                     !.is_new = (identity[1] = NoUser),
                                     !.username = identity[2],
                                     !.req_user = identity[1]]]
        /\ sess' = [sess EXCEPT ![c].social_auth_user = identity[1],
                                ![c].password_reset = reset]
    /\ begins' = begins + 1
    /\ UNCHANGED <<call, now, settings, accounts, codes, partials, mails,
                   verified, notifications, next_code, next_token, resumes>>

\* mutant: a resumed Partial stays in the store
consume_keep(ps, token) == ps

\* the Partial store after the Partial of the token is consumed
consume(ps, token) == {q \in ps : q.token # token}

\* resumption with a partial_token: a missing Partial is not found; a stored
\* one is consumed, its Context restored (the request's authenticated user
\* replacing the stored one) and the run goes on at the stored step
ResumeWith(c, users) ==
    /\ run[c].status \in Ended
    /\ \E token \in 1..(next_token - 1), code \in 0..(next_code - 1),
          req_user \in users :
        LET found == \E q \in partials : q.token = token
            p == CHOOSE q \in partials : q.token = token
        IN  /\ run' = [run EXCEPT ![c] =
                  IF ~found
                  THEN [IdleRun EXCEPT !.status = "notfound",
                                       !.token = token, !.code = code,
                                       !.req_user = req_user]
                  ELSE [IdleRun EXCEPT
                          !.status = "running", !.pc = p.next_step,
                          !.resumed = TRUE,
                          !.backend = p.backend,
                          !.user = IF req_user # NoUser THEN req_user
                                   ELSE p.user,
                          !.is_new = p.is_new, !.email = p.email,
                          !.username = p.username,
                          !.response = p.response, !.social = p.social,
                          !.weblate_action = p.weblate_action,
                          !.registering_user = p.registering_user,
                          !.weblate_expires = p.weblate_expires,
                          !.code = code, !.token = token,
                          !.req_user = req_user]]
            /\ partials' = consume(partials, token)
    /\ resumes < MaxResumes
    /\ resumes' = resumes + 1
    /\ UNCHANGED <<call, now, settings, accounts, codes, mails, verified,
                   notifications, next_code, next_token, sess, begins>>

\* Spec: the requests are served one at a time
Begin(c) ==
    /\ NoneRunning
    /\ begins < MaxBegins
    /\ BeginWith(c, FlowProfiles, FlowIdentities, BOOLEAN)

Resume(c) ==
    /\ NoneRunning
    /\ ResumeWith(c, FlowUsers)

\* SpecRace: anonymous registrations by email, served concurrently
BeginRace(c) ==
    /\ begins < Cardinality(Clients)
    /\ BeginWith(c, RaceProfiles, RaceIdentities, {FALSE})

ResumeRace(c) ==
    /\ ResumeWith(c, {NoUser})

\* ----------------------------------------------------------------- steps
username_of(user) == IF user = NoUser THEN NoName ELSE accounts[user].username
email_of(user) == IF user = NoUser THEN NoEmail ELSE accounts[user].email

StoreParams(c) ==
    /\ AtStep(c, "store_params")
    /\ LET r == run[c]
           p == store_params(r.user, sess[c].password_reset, now)
       IN  run' = [run EXCEPT ![c] = Continue(
                     [r EXCEPT !.weblate_action = p.weblate_action,
                               !.registering_user = p.registering_user,
                               !.weblate_expires = p.weblate_expires])]
    /\ UNCHANGED <<call, now, settings, accounts, codes, partials, mails,
                   verified, notifications, next_code, next_token, sess,
                   begins, resumes>>

VerifyOpen(c) ==
    /\ AtStep(c, "verify_open")
    /\ LET r == run[c]
       IN  run' = [run EXCEPT ![c] = Outcome(r,
                     verify_open(r.user, username_of(r.user),
                                 settings.REGISTRATION_OPEN,
                                 settings.DEMO_SERVER,
                                 r.req_user, sess[c].social_auth_user))]
    /\ UNCHANGED <<call, now, settings, accounts, codes, partials, mails,
                   verified, notifications, next_code, next_token, sess,
                   begins, resumes>>

\* @partial: a redirect stores the Partial, which names this step as the next
RequireEmail(c) ==
    /\ AtStep(c, "require_email")
    /\ LET r == run[c]
           out == require_email(r.backend, r.response, r.email, r.user,
                                email_of(r.user), r.is_new)
           r2 == [r EXCEPT !.email = out.email, !.is_new = out.is_new]
           stop == out.result = "redirect"
       IN  /\ run' = [run EXCEPT ![c] =
                        IF stop THEN Suspend(r2, next_token, out.target)
                        ELSE Continue(r2)]
           /\ partials' = IF stop
                          THEN partials \cup {Snapshot(r2, next_token)}
                          ELSE partials
           /\ next_token' = IF stop THEN next_token + 1 ELSE next_token
    /\ UNCHANGED <<call, now, settings, accounts, codes, mails, verified,
                   notifications, next_code, sess, begins, resumes>>

MailValidation(c) ==
    /\ AtStep(c, "mail_validation")
    /\ LET r == run[c]
           branch == mail_validation_branch(requires_validation(r.backend),
                                            passwordless(r.backend),
                                            r.email, r.is_new, r.code)
           checked == validate_email(codes, r.email, r.code)
           \* strategy.send_email_validation: make_code, then send_validation
           made == [code |-> next_code, email |-> r.email,
                    verified |-> FALSE]
           sent == send_validation(sess[c], made, next_token)
       IN  /\ run' = [run EXCEPT ![c] =
                 CASE branch = "skip" -> Continue(r)
                   [] branch = "check" ->
                        IF checked.ok THEN Continue(r)
                        ELSE Abort(r, "InvalidEmail")
                   [] branch = "send" ->
                        Suspend(r, next_token, "EMAIL_VALIDATION_URL")]
           /\ codes' = CASE branch = "skip" -> codes
                         [] branch = "check" -> checked.codes
                         [] branch = "send" -> codes \cup {made}
           /\ sess' = CASE branch = "skip" -> sess
                        [] branch = "check" ->
                             [sess EXCEPT
                                ![c].email_validation_address = NoEmail]
                        [] branch = "send" ->
                             [sess EXCEPT ![c] =
                                [sent.session EXCEPT
                                   !.email_validation_address = r.email]]
           /\ mails' = IF branch = "send" THEN mails \cup {sent.mail}
                       ELSE mails
           /\ partials' = IF branch = "send"
                          THEN partials \cup {Snapshot(r, next_token)}
                          ELSE partials
           /\ next_token' = IF branch = "send" THEN next_token + 1
                            ELSE next_token
           /\ next_code' = IF branch = "send" THEN next_code + 1
                           ELSE next_code
    /\ UNCHANGED <<call, now, settings, accounts, verified, notifications,
                   begins, resumes>>

RevokeMailCode(c) ==
    /\ AtStep(c, "revoke_mail_code")
    /\ codes' = revoke_mail_code(run[c].email, run[c].code, codes)
    /\ run' = [run EXCEPT ![c] = Continue(run[c])]
    /\ UNCHANGED <<call, now, settings, accounts, partials, mails, verified,
                   notifications, next_code, next_token, sess, begins,
                   resumes>>

EnsureValid(c) ==
    /\ AtStep(c, "ensure_valid")
    /\ LET r == run[c]
       IN  run' = [run EXCEPT ![c] = Outcome(r,
                     ensure_valid(r.user, r.registering_user,
                                  r.weblate_action, r.weblate_expires, now))]
    /\ UNCHANGED <<call, now, settings, accounts, codes, partials, mails,
                   verified, notifications, next_code, next_token, sess,
                   begins, resumes>>

VerifyUsername(c) ==
    /\ AtStep(c, "verify_username")
    /\ LET r == run[c]
       IN  run' = [run EXCEPT ![c] = Outcome(r,
                     verify_username(r.user, r.username, accounts))]
    /\ UNCHANGED <<call, now, settings, accounts, codes, partials, mails,
                   verified, notifications, next_code, next_token, sess,
                   begins, resumes>>

\* the account store's unique constraint compares usernames exactly
username_taken(accts, username) ==
    \E i \in 1..Len(accts) : accts[i].username = username

\* create_user and associate_user: an attempt without a bound user gets a
\* new account, and the social identity is linked to the attempt's user
CreateUser(c) ==
    /\ AtStep(c, "create_user")
    /\ LET r == run[c]
           create == r.user = NoUser
           clash == create /\ username_taken(accounts, r.username)
       IN  /\ run' = [run EXCEPT ![c] =
                 IF clash THEN Abort(r, "IntegrityError")
                 ELSE Continue(
                        [r EXCEPT !.user = IF create THEN Len(accounts) + 1
                                           ELSE r.user,
                                  !.is_new = create,
                                  !.social = social_of(r.backend)])]
           /\ accounts' = IF create /\ ~clash
                          THEN Append(accounts,
                                      [username |-> r.username,
                                       email |-> IF r.email = NoEmail THEN ""
                                                 ELSE r.email,
                                       usable |-> TRUE])
                          ELSE accounts
    /\ UNCHANGED <<call, now, settings, codes, partials, mails, verified,
                   notifications, next_code, next_token, sess, begins,
                   resumes>>

StoreEmail(c) ==
    /\ AtStep(c, "store_email")
    /\ LET r == run[c]
           out == store_email(r.email, r.social, verified)
       IN  /\ run' = [run EXCEPT ![c] = Outcome(r, out.result)]
           /\ verified' = out.rows
    /\ UNCHANGED <<call, now, settings, accounts, codes, partials, mails,
                   notifications, next_code, next_token, sess, begins,
                   resumes>>

PasswordReset(c) ==
    /\ AtStep(c, "password_reset")
    /\ LET r == run[c]
           fire == password_reset(TRUE, r.user, r.weblate_action)
       IN  /\ accounts' = IF fire
                          THEN [accounts EXCEPT ![r.user].usable = FALSE]
                          ELSE accounts
           /\ notifications' =
                 IF fire
                 THEN Append(notifications,
                             [user |-> r.user, activity |-> "reset",
                              method |-> r.backend, name |-> r.social])
                 ELSE notifications
           /\ run' = [run EXCEPT ![c] = Continue(r)]
    /\ UNCHANGED <<call, now, settings, codes, partials, mails, verified,
                   next_code, next_token, sess, begins,
                   resumes>>

\* time passes between the requests
Tick ==
    /\ NoneRunning
    /\ now < MaxTime
    /\ now' = now + 1
    /\ UNCHANGED <<call, settings, accounts, codes, partials, mails,
                   verified, notifications, next_code, next_token, sess, run,
                   begins, resumes>>

Next ==
    \/ Tick
    \/ \E c \in SerialClients :
        \/ Begin(c)
        \/ Resume(c)
        \/ StoreParams(c)
        \/ VerifyOpen(c)
        \/ RequireEmail(c)
        \/ MailValidation(c)
        \/ RevokeMailCode(c)
        \/ EnsureValid(c)
        \/ VerifyUsername(c)
        \/ CreateUser(c)
        \/ StoreEmail(c)
        \/ PasswordReset(c)

Step(c) ==
    \/ StoreParams(c)
    \/ VerifyOpen(c)
    \/ RequireEmail(c)
    \/ MailValidation(c)
    \/ RevokeMailCode(c)
    \/ EnsureValid(c)
    \/ VerifyUsername(c)
    \/ CreateUser(c)
    \/ StoreEmail(c)
    \/ PasswordReset(c)

NextRace ==
    \E c \in Clients :
        \/ BeginRace(c)
        \/ ResumeRace(c)
        \/ Step(c)

Init == CallInit /\ FlowInit

RaceInit ==
    /\ Init
    /\ settings.REGISTRATION_OPEN
    /\ ~settings.DEMO_SERVER

Spec == Init /\ [][Next]_vars

SpecRace == RaceInit /\ [][NextRace]_vars

\* =================================================== the steps, one by one
CallEnsureValid ==
    /\ call.fn = "idle"
    /\ UNCHANGED flow_vars
    /\ \E user \in MaybeUser, registering_user \in MaybeUser,
       weblate_action \in Actions, weblate_expires \in ExpiryValues,
       t \in Times :
        call' = [fn |-> "ensure_valid",
                 user |-> user, registering_user |-> registering_user,
                 weblate_action |-> weblate_action,
                 weblate_expires |-> weblate_expires, now |-> t,
                 ret |-> ensure_valid(user, registering_user, weblate_action,
                                      weblate_expires, t)]

CallVerifyOpen ==
    /\ call.fn = "idle"
    /\ UNCHANGED flow_vars
    /\ \E user \in MaybeUser, username \in Usernames,
       registration_open \in BOOLEAN, demo_server \in BOOLEAN,
       request_user \in MaybeUser, session_user \in MaybeUser :
        call' = [fn |-> "verify_open",
                 user |-> user, username |-> username,
                 registration_open |-> registration_open,
                 demo_server |-> demo_server,
                 request_user |-> request_user, session_user |-> session_user,
                 ret |-> verify_open(user, username, registration_open,
                                     demo_server, request_user, session_user)]

CallGetGithubEmail ==
    /\ call.fn = "idle"
    /\ UNCHANGED flow_vars
    /\ \E data \in GithubResponses :
        call' = [fn |-> "get_github_email", data |-> data,
                 ret |-> get_github_email(data)]

CallRequireEmail ==
    /\ call.fn = "idle"
    /\ UNCHANGED flow_vars
    /\ \E backend_name \in BackendNames, data \in GithubResponses,
       details_email \in EmailValues, user \in {NoUser, 1},
       user_email \in {"", "a@x"}, is_new \in BOOLEAN :
        call' = [fn |-> "require_email",
                 backend_name |-> backend_name, data |-> data,
                 details_email |-> details_email, user |-> user,
                 user_email |-> user_email, is_new |-> is_new,
                 ret |-> require_email(backend_name, data, details_email,
                                       user, user_email, is_new)]

CallAdjustPrimaryMail ==
    /\ call.fn = "idle"
    /\ UNCHANGED flow_vars
    /\ \E rows \in VerifiedStores, entries \in SUBSET Socials,
       user \in UserIds, user_email \in {""} \cup Emails :
        call' = [fn |-> "adjust_primary_mail",
                 rows |-> rows, entries |-> entries, user |-> user,
                 user_email |-> user_email,
                 ret |-> adjust_primary_mail(rows, entries, user, user_email)]

CallSlugifyUsername ==
    /\ call.fn = "idle"
    /\ UNCHANGED flow_vars
    /\ \E value \in Strings :
        call' = [fn |-> "slugify_username", value |-> value,
                 ret |-> slugify_username(value),
                 again |-> slugify_username(slugify_username(value))]

CallRevokeMailCode ==
    /\ call.fn = "idle"
    /\ UNCHANGED flow_vars
    /\ \E email \in EmailValues, code \in 0..MaxCode, codes_ \in CodeStores :
        call' = [fn |-> "revoke_mail_code", email |-> email, code |-> code,
                 codes |-> codes_,
                 ret |-> revoke_mail_code(email, code, codes_)]

CallCleanupNext ==
    /\ call.fn = "idle"
    /\ UNCHANGED flow_vars
    /\ \E url \in NextValues, safe \in SUBSET Urls :
        call' = [fn |-> "cleanup_next", url |-> url, safe |-> safe,
                 ret |-> cleanup_next(url, safe)]

NextSteps ==
    \/ CallEnsureValid
    \/ CallVerifyOpen
    \/ CallGetGithubEmail
    \/ CallRequireEmail
    \/ CallAdjustPrimaryMail
    \/ CallSlugifyUsername
    \/ CallRevokeMailCode
    \/ CallCleanupNext

SpecSteps == Init /\ [][NextSteps]_vars

\* ============================================ store_email, call after call
\* store_email called again and again on the VerifiedEmail store
CallStoreEmail ==
    /\ \E email \in EmailValues, social \in Socials :
        LET out == store_email(email, social, verified)
        IN  /\ verified' = out.rows
            /\ call' = [fn |-> "store_email", email |-> email,
                        social |-> social, before |-> verified,
                        ret |-> out.result]
    /\ UNCHANGED <<now, settings, accounts, codes, partials, mails,
                   notifications, next_code, next_token, sess, run, begins,
                   resumes>>

NextStore == CallStoreEmail

SpecStore == Init /\ [][NextStore]_vars

\* =============================================================== claims
StepIndex(name) == CHOOSE i \in 1..Len(PIPELINE) : PIPELINE[i] = name

Expired(weblate_expires, t) == weblate_expires * TicksPerSecond < t

\* C1: ensure_valid called with an expiry earlier than the current time
\* raises AuthStateForbidden 'expires', whatever user, registering_user and
\* weblate_action are.
C1_ExpiredLinkRaises ==
    (call.fn = "ensure_valid" /\ Expired(call.weblate_expires, call.now))
        => call.ret = "AuthStateForbidden_expires"

C1_Witness ==
    /\ call.fn = "ensure_valid"
    /\ Expired(call.weblate_expires, call.now)
    /\ call.weblate_action = "reset"
    /\ call.user # NoUser
    /\ call.user = call.registering_user
    /\ call.ret = "AuthStateForbidden_expires"

\* C2: for a link that has not expired, ensure_valid returns normally when
\* weblate_action is 'reset', and raises AuthStateForbidden 'user' when it is
\* not 'reset' and the current user differs from registering_user.
C2_ResetBypassesUserCheck ==
    (call.fn = "ensure_valid" /\ ~Expired(call.weblate_expires, call.now))
        => /\ call.weblate_action = "reset" => call.ret = "ok"
           /\ (call.weblate_action # "reset"
               /\ current_user_of(call.user) # call.registering_user)
                 => call.ret = "AuthStateForbidden_user"

C2_Witness ==
    /\ call.fn = "ensure_valid"
    /\ ~Expired(call.weblate_expires, call.now)
    /\ call.weblate_action = "reset"
    /\ call.user # NoUser
    /\ call.registering_user = NoUser
    /\ call.ret = "ok"

\* whether client c takes the step `name` and the engine goes on to the next
Passes(c, name) ==
    /\ AtStep(c, name)
    /\ run'[c].status \in {"running", "completed"}
    /\ run'[c].pc = run[c].pc + 1

\* C3 as claimed: whenever ensure_valid lets a flow continue, the current
\* user's id equals the registering_user stored by store_params.
C3_Original ==
    [][\A c \in Clients :
         Passes(c, "ensure_valid")
           => current_user_of(run[c].user) = run[c].registering_user]_vars

\* C3 as amended: a flow that is not a password reset gets past ensure_valid
\* only with the current user's id equal to registering_user, and is aborted
\* as forbidden otherwise; every Partial resumes before ensure_valid, so no
\* flow completes without that check.
C3_NonResetFlowKeepsUser ==
    /\ [][\A c \in Clients :
            (AtStep(c, "ensure_valid") /\ run[c].weblate_action # "reset")
              => IF current_user_of(run[c].user) = run[c].registering_user
                 THEN run'[c].status = "aborted"
                        => run'[c].error = "AuthStateForbidden_expires"
                 ELSE /\ run'[c].status = "aborted"
                      /\ run'[c].error \in {"AuthStateForbidden_user",
                                            "AuthStateForbidden_expires"}]_vars
    /\ [](\A q \in partials : q.next_step < StepIndex("ensure_valid"))

C3_Witness ==
    \E c \in Clients :
        /\ run[c].status = "completed"
        /\ run[c].resumed
        /\ run[c].weblate_action = "activation"
        /\ run[c].registering_user # NoUser
        /\ run[c].user = run[c].registering_user

Tokens(ps) == {q.token : q \in ps}

\* whether the step taken is a resumption by client c
Resumes(c) == resumes' = resumes + 1 /\ run'[c] # run[c]

\* C4: a Partial is consumed exactly once: a resumption with the token of a
\* stored Partial removes it, a consumed token never comes back, and a
\* resumption with a consumed token ends not found without running a step or
\* changing a store.
C4_PartialConsumedOnce ==
    /\ [][\A c \in Clients :
            Resumes(c)
              => IF run'[c].token \in Tokens(partials)
                 THEN /\ run'[c].status = "running"
                      /\ run'[c].token \notin Tokens(partials')
                 ELSE /\ run'[c].status = "notfound"
                      /\ run'[c].pc = 0
                      /\ UNCHANGED <<accounts, codes, partials, mails,
                                     verified, notifications, sess>>]_vars
    /\ [][\A t \in 1..(next_token - 1) :
            t \notin Tokens(partials) => t \notin Tokens(partials')]_vars

C4_Witness ==
    \E c \in Clients :
        /\ run[c].status = "notfound"
        /\ run[c].code # NoCode
        /\ run[c].token < next_token
        /\ \E m \in mails : m.token = run[c].token /\ m.code = run[c].code
        /\ \A k \in codes : k.code # run[c].code

\* the begun registrations of c and d ended at or after verify_username
Registered(c) ==
    /\ run[c].registering_user = NoUser
    /\ run[c].pc >= StepIndex("verify_username")
    /\ run[c].status \in {"completed", "aborted"}

\* C5 as claimed: of two concurrent registrations without a bound user whose
\* usernames differ only in letter case, exactly one ends with
\* AuthAlreadyAssociated (taken here for registrations of two different
\* email addresses, which are two different social identities).
C5_Claim ==
    \A c, d \in Clients :
        (/\ c # d
         /\ Registered(c)
         /\ Registered(d)
         /\ run[c].email # run[d].email
         /\ run[c].username # run[d].username
         /\ iexact(run[c].username, run[d].username))
          => Cardinality({x \in {c, d} :
                            run[x].error = "AuthAlreadyAssociated"}) = 1

\* whether c presented a verification_code that mail_validation accepted:
\* the pass is beyond mail_validation, which checked the code
Validated(c) ==
    /\ run[c].code # NoCode
    /\ requires_validation(run[c].backend)
    /\ Truthy(run[c].email)
    /\ run[c].status \in {"running", "completed", "aborted"}
    /\ run[c].pc > StepIndex("mail_validation")

\* C6 as claimed: of the attempts presenting the same verification_code for
\* the same email at most one passes mail_validation.
C6_Claim ==
    \A c, d \in Clients :
        (/\ c # d
         /\ Validated(c)
         /\ Validated(d)
         /\ run[c].email = run[d].email)
          => run[c].code # run[d].code

\* whether the error that ended the pass of c is one of the guards after
\* mail_validation rejecting it on its own condition
GuardRejected(c) ==
    \/ /\ run[c].error = "AuthStateForbidden_expires"
       /\ Expired(run[c].weblate_expires, now)
    \/ /\ run[c].error = "AuthStateForbidden_user"
       /\ run[c].user # run[c].registering_user
    \/ /\ run[c].error \in {"AuthAlreadyAssociated", "IntegrityError"}
       /\ \E i \in 1..Len(accounts) :
            iexact(accounts[i].username, run[c].username)

Min(S) == CHOOSE x \in S : \A y \in S : x <= y
Max(S) == CHOOSE x \in S : \A y \in S : x >= y

VerifiedAt(data) == {i \in 1..Len(data) : data[i].verified}
PrimaryAt(data) == {i \in VerifiedAt(data) : data[i].primary}

\* the email of the first verified primary entry, else of the first (or of
\* the last) verified entry, else none
ChosenEmail(data, first) ==
    IF PrimaryAt(data) # {} THEN data[Min(PrimaryAt(data))].email
    ELSE IF VerifiedAt(data) # {}
    THEN data[IF first THEN Min(VerifiedAt(data))
              ELSE Max(VerifiedAt(data))].email
    ELSE NoEmail

\* C8 as claimed: with no bound user and no email after the lookup,
\* require_email redirects to the registration form whatever is_new is.
C8_Original ==
    (/\ call.fn = "require_email"
     /\ call.user = NoUser
     /\ ~Truthy(call.ret.email))
      => call.ret.result = "redirect" /\ call.ret.target = "register"

\* C8 as amended: with no bound user and no email after the lookup,
\* require_email redirects to the registration form exactly when is_new is
\* true; with is_new false it returns normally.
C8_RedirectsNewUserWithoutEmail ==
    (/\ call.fn = "require_email"
     /\ call.user = NoUser
     /\ ~Truthy(call.ret.email))
      => /\ call.is_new
            => call.ret.result = "redirect" /\ call.ret.target = "register"
         /\ ~call.is_new => call.ret.result = "continue"

C8_Witness ==
    /\ call.fn = "require_email"
    /\ call.user = NoUser
    /\ call.backend_name = "github"
    /\ call.data # <<>>
    /\ ~Truthy(call.ret.email)
    /\ call.is_new
    /\ call.ret.result = "redirect"

\* C9 as claimed: the github email is the verified primary entry's, else the
\* first verified entry's, else none.
C9_Original ==
    call.fn = "get_github_email" => call.ret = ChosenEmail(call.data, TRUE)

\* C9 as amended: the github email is the first verified primary entry's,
\* else the last verified entry's, else none; require_email sets
\* details.email to it exactly when it is not none, so a new github user
\* without a profile email but with a verified primary email is not
\* suspended.
C9_GithubEmailChoice ==
    /\ call.fn = "get_github_email" => call.ret = ChosenEmail(call.data, FALSE)
    /\ call.fn = "require_email"
         => LET chosen == ChosenEmail(call.data, FALSE)
            IN  /\ call.ret.email =
                     IF call.backend_name = "github" /\ chosen # NoEmail
                     THEN chosen ELSE call.details_email
                /\ (/\ call.backend_name = "github"
                    /\ call.is_new
                    /\ PrimaryAt(call.data) # {})
                     => call.ret.result = "continue"

C9_Witness ==
    /\ call.fn = "require_email"
    /\ call.backend_name = "github"
    /\ call.user = NoUser
    /\ call.is_new
    /\ call.details_email = NoEmail
    /\ Len(call.data) = 1
    /\ call.data[1].verified
    /\ call.data[1].primary
    /\ call.ret.email = call.data[1].email
    /\ call.ret.result = "continue"

\* C10: verify_open returns normally exactly when a user is bound or
\* registration is open, the bound user is not the demo account of a demo
\* server, and the request's user id equals the one recorded in the session.
C10_VerifyOpenAccepts ==
    call.fn = "verify_open"
      => (call.ret = "ok"
            <=> /\ call.user # NoUser \/ call.registration_open
                /\ ~(call.user # NoUser /\ call.demo_server
                     /\ call.username = "demo")
                /\ call.request_user = call.session_user)

C10_Witness ==
    /\ call.fn = "verify_open"
    /\ call.user # NoUser
    /\ call.registration_open
    /\ ~call.demo_server
    /\ call.request_user # call.session_user
    /\ call.ret = "AuthStateForbidden_user"

\* the emails of the VerifiedEmail rows of the call's user that remain
RemainingEmails ==
    {call.rows[i].email : i \in {j \in 1..Len(call.rows) :
        IsRemaining(call.rows[j], call.entries, call.user)}}

\* C11 as claimed: the primary email stays, without a warning, when a
\* remaining VerifiedEmail backs it; otherwise it becomes the email of a
\* remaining VerifiedEmail and a warning is issued, for every number of
\* remaining rows, zero included.
C11_Original ==
    call.fn = "adjust_primary_mail"
      => IF call.user_email \in RemainingEmails
         THEN call.ret.email = call.user_email /\ ~call.ret.warning
         ELSE call.ret.email \in RemainingEmails /\ call.ret.warning

\* C11 as amended: as claimed when at least one VerifiedEmail remains; with
\* none remaining adjust_primary_mail raises IndexError, the primary email
\* stays and no warning is issued.
C11_AdjustPrimaryMail ==
    call.fn = "adjust_primary_mail"
      => IF call.user_email \in RemainingEmails
         THEN /\ call.ret.result = "ok"
              /\ call.ret.email = call.user_email
              /\ ~call.ret.warning
         ELSE IF RemainingEmails # {}
         THEN /\ call.ret.result = "ok"
              /\ call.ret.email \in RemainingEmails
              /\ call.ret.warning
         ELSE /\ call.ret.result = "IndexError"
              /\ call.ret.email = call.user_email
              /\ ~call.ret.warning

C11_Witness ==
    /\ call.fn = "adjust_primary_mail"
    /\ call.entries # {}
    /\ \E i \in 1..Len(call.rows) :
         /\ call.rows[i].social \in call.entries
         /\ call.rows[i].user = call.user
         /\ call.rows[i].email = call.user_email
    /\ RemainingEmails # {}
    /\ call.ret.warning
    /\ call.ret.email # call.user_email

\* C12: after any sequence of store_email calls the store holds at most one
\* VerifiedEmail row per social identity; after a successful call the row of
\* the call's social identity holds the call's details.email; a call without
\* an email raises AuthMissingParameter and leaves the store as it was.
C12_OneRowPerSocial ==
    /\ \A r1, r2 \in verified : r1.social = r2.social => r1 = r2
    /\ call.fn = "store_email"
         => IF call.email = NoEmail
            THEN /\ call.ret = "AuthMissingParameter_email"
                 /\ verified = call.before
            ELSE /\ call.ret = "ok"
                 /\ \E r \in verified :
                      r.social = call.social /\ r.email = call.email

C12_Witness ==
    /\ call.fn = "store_email"
    /\ call.ret = "ok"
    /\ \E r \in call.before :
         r.social = call.social /\ r.email # call.email
    /\ Cardinality(verified) = Cardinality(call.before)
    /\ Cardinality(verified) > 1

\* the error the step c is at raises on the current state, "ok" if none
Raised(c) ==
    LET r == run[c]
    IN  CASE AtStep(c, "verify_open") ->
               verify_open(r.user, username_of(r.user),
                           settings.REGISTRATION_OPEN, settings.DEMO_SERVER,
                           r.req_user, sess[c].social_auth_user)
          [] AtStep(c, "ensure_valid") ->
               ensure_valid(r.user, r.registering_user, r.weblate_action,
                            r.weblate_expires, now)
          [] AtStep(c, "verify_username") ->
               verify_username(r.user, r.username, accounts)
          [] AtStep(c, "store_email") ->
               store_email(r.email, r.social, verified).result
          [] OTHER -> "ok"

\* C13: a step that raises ends the attempt Aborted with that error; the
\* aborting step leaves the accounts, VerifiedEmail rows, codes, Partials,
\* mails and notifications written by earlier steps as they are, and the
\* Context of the aborted attempt as the step found it; no step runs after
\* it: an aborted pass only changes when a new request begins or resumes.
C13_AbortKeepsMutations ==
    /\ [][\A c \in Clients :
            (run[c].status = "running" /\ Raised(c) # "ok")
              => /\ run'[c] = [run[c] EXCEPT !.status = "aborted",
                                             !.error = Raised(c)]
                 /\ UNCHANGED <<accounts, verified, codes, partials, mails,
                                notifications>>]_vars
    /\ [][\A c \in Clients :
            (run[c].status = "aborted" /\ run'[c] # run[c])
              => begins' # begins \/ resumes' # resumes]_vars

\* an attempt aborted by ensure_valid after revoke_mail_code deleted its code
C13_Witness ==
    \E c \in Clients :
        /\ run[c].status = "aborted"
        /\ run[c].error = "AuthStateForbidden_expires"
        /\ PIPELINE[run[c].pc] = "ensure_valid"
        /\ \E m \in mails : m.code = run[c].code /\ m.to = run[c].email
        /\ \A k \in codes : k.code # run[c].code

\* C14: slugify_username returns a string for every input, and applying it
\* to its own result returns that result.
C14_SlugifyIdempotent ==
    call.fn = "slugify_username"
      => /\ call.ret \in Seq(Chars)
         /\ call.again = call.ret

\* an input that slugify_username has to strip, trim and merge
C14_Witness ==
    /\ call.fn = "slugify_username"
    /\ call.value = <<"!", "nbsp", "a_acute">>
    /\ call.ret = <<"a">>
    /\ call.again = call.ret

\* mail_validation is about to check a verification_code for c (the step is
\* taken when run[c] changes)
ChecksCode(c) ==
    /\ AtStep(c, "mail_validation")
    /\ requires_validation(run[c].backend)
    /\ Truthy(run[c].email)
    /\ run[c].is_new \/ passwordless(run[c].backend)
    /\ run[c].code # NoCode

\* whether a VerificationCode of the store carries the code for the address
CodeValidFor(address, code) ==
    \E k \in codes : k.code = code /\ k.email = address

\* C15 as claimed: with a verification_code in the request data,
\* mail_validation removes the session marker email_validation_address and
\* validates the code for the address the marker held, raising InvalidEmail
\* if it does not validate for that address.
C15_Original ==
    [][\A c \in Clients :
        (ChecksCode(c) /\ run'[c] # run[c])
          => /\ sess'[c].email_validation_address = NoEmail
             /\ IF CodeValidFor(sess[c].email_validation_address, run[c].code)
                THEN run'[c].status = "running"
                ELSE /\ run'[c].status = "aborted"
                     /\ run'[c].error = "InvalidEmail"]_vars

\* C15 as amended: the marker is removed, and the code is validated for
\* details.email, whatever address the marker held.
C15_ValidatesDetailsEmail ==
    [][\A c \in Clients :
        (ChecksCode(c) /\ run'[c] # run[c])
          => /\ sess'[c].email_validation_address = NoEmail
             /\ IF CodeValidFor(run[c].email, run[c].code)
                THEN /\ run'[c].status = "running"
                     /\ run'[c].pc = run[c].pc + 1
                ELSE /\ run'[c].status = "aborted"
                     /\ run'[c].error = "InvalidEmail"]_vars

\* a code accepted in a session that never held the marker
C15_Witness ==
    \E c \in Clients :
        /\ run[c].resumed
        /\ Validated(c)
        /\ ~sess[c].registration_email_sent
        /\ sess[c].email_validation_address = NoEmail
        /\ \E m \in mails : m.code = run[c].code /\ m.to = run[c].email

\* the rows of the call's store with the call's code and email
Presented == {k \in call.codes : k.code = call.code /\ k.email = call.email}

\* C16 as claimed: after revoke_mail_code ran with a verification_code in
\* the request data and details.email set, no VerificationCode with that
\* code and email remains, and the other codes are unchanged.
C16_Original ==
    (/\ call.fn = "revoke_mail_code"
     /\ Truthy(call.email)
     /\ call.code # NoCode)
      => /\ \A k \in call.ret : ~(k.code = call.code /\ k.email = call.email)
         /\ call.codes \ Presented \subseteq call.ret

\* C16 as amended: no VERIFIED VerificationCode with that code and email
\* remains, and after a verified one was deleted the code no longer
\* validates for the email; a code that was not verified stays, as do the
\* codes for other emails or with other code values; without a
\* verification_code or without details.email nothing is deleted.
C16_RevokesVerifiedCode ==
    call.fn = "revoke_mail_code"
      => IF Truthy(call.email) /\ call.code # NoCode
         THEN /\ call.ret = call.codes \ {k \in Presented : k.verified}
              /\ (\E k \in Presented : k.verified)
                   => ~validate_email(call.ret, call.email, call.code).ok
         ELSE call.ret = call.codes

C16_Witness ==
    /\ call.fn = "revoke_mail_code"
    /\ \E k \in Presented : k.verified
    /\ call.ret # {}
    /\ call.ret # call.codes
    /\ \E k \in call.ret : k.email = call.email /\ k.verified

SafeOrAbsent(url) == url \in {NoNext, ""} \/ is_safe_url(url, call.safe)

\* C18: after cleanup_next the session's 'next' is absent, empty or a URL the
\* redirect-safety checker accepts; a target that was safe or absent before
\* is left unchanged.
C18_NextIsSafe ==
    call.fn = "cleanup_next"
      => /\ SafeOrAbsent(call.ret)
         /\ SafeOrAbsent(call.url) => call.ret = call.url

\* an unsafe target was cleared while the checker accepts other URLs
C18_Witness ==
    /\ call.fn = "cleanup_next"
    /\ call.url \in Urls
    /\ call.safe # {}
    /\ ~SafeOrAbsent(call.url)
    /\ call.ret = NoNext

\* C19: store_params stores weblate_action 'reset' exactly when the session's
\* password_reset flag is set; send_validation then removes the flag and
\* picks the 'reset' template exactly when it was set, which in the pass
\* that ran store_params is exactly when weblate_action is 'reset'; the pass
\* resumed from the Partial carries the weblate_action of the Partial, and
\* its password_reset step acts on it whatever the session's flag is.
C19_ActionSurvivesSuspension ==
    /\ [][\A c \in Clients :
            (AtStep(c, "store_params") /\ run'[c] # run[c])
              => /\ run'[c].weblate_action \in Actions
                 /\ run'[c].weblate_action = "reset"
                      <=> sess[c].password_reset]_vars
    /\ [][\A c \in Clients :
            (/\ AtStep(c, "mail_validation")
             /\ run'[c].status = "suspended")
              => /\ ~sess'[c].password_reset
                 /\ \E m \in mails' \ mails :
                      /\ m.token = run'[c].partial
                      /\ m.template = "reset" <=> sess[c].password_reset
                      /\ ~run[c].resumed
                           => (m.template = "reset"
                                 <=> run[c].weblate_action = "reset")
                 /\ \E q \in partials' \ partials :
                      /\ q.token = run'[c].partial
                      /\ q.weblate_action = run[c].weblate_action]_vars
    /\ [][\A c \in Clients :
            (/\ resumes' = resumes + 1
             /\ run'[c] # run[c]
             /\ run'[c].status = "running")
              => \E q \in partials :
                    /\ q.token = run'[c].token
                    /\ run'[c].weblate_action = q.weblate_action]_vars
    /\ [][\A c \in Clients :
            (/\ AtStep(c, "password_reset")
             /\ run'[c] # run[c]
             /\ run[c].resumed
             /\ run[c].weblate_action = "reset")
              => /\ ~accounts'[run[c].user].usable
                 /\ Len(notifications') = Len(notifications) + 1]_vars

\* a reset flow suspended for validation, resumed and completed
C19_Witness ==
    \E c \in Clients :
        /\ run[c].status = "completed"
        /\ run[c].resumed
        /\ Validated(c)
        /\ run[c].weblate_action = "reset"
        /\ ~sess[c].password_reset
        /\ \E m \in mails :
             m.token = run[c].token /\ m.template = "reset"
        /\ ~accounts[run[c].user].usable

\* the steps from store_params up to ensure_valid
BeforeEnsureValid(c) ==
    /\ run[c].status = "running"
    /\ run[c].pc < StepIndex("ensure_valid")

\* C20: an attempt that reaches ensure_valid with the user value store_params
\* saw, at a time not later than the weblate_expires store_params computed,
\* gets past ensure_valid, as an activation and as a password reset:
\* store_params records the user's id and the expiry, no step up to
\* ensure_valid changes the user or what was recorded, a Partial hands the
\* record back, and ensure_valid then returns normally.
C20_NoFalseRejection ==
    /\ [][\A c \in Clients :
            (AtStep(c, "store_params") /\ run'[c] # run[c])
              => /\ run'[c].user = run[c].user
                 /\ run'[c].registering_user = current_user_of(run[c].user)
                 /\ run'[c].weblate_expires * TicksPerSecond
                      <= now + AUTH_TOKEN_VALID * TicksPerSecond
                 /\ (run'[c].weblate_expires + 1) * TicksPerSecond
                      > now + AUTH_TOKEN_VALID * TicksPerSecond]_vars
    /\ [][\A c \in Clients :
            (/\ BeforeEnsureValid(c)
             /\ ~AtStep(c, "store_params")
             /\ run'[c] # run[c])
              => IF run'[c].status = "suspended"
                 THEN \E q \in partials' \ partials :
                        /\ q.token = run'[c].partial
                        /\ q.user = run[c].user
                        /\ q.registering_user = run[c].registering_user
                        /\ q.weblate_expires = run[c].weblate_expires
                        /\ q.weblate_action = run[c].weblate_action
                 ELSE /\ run'[c].user = run[c].user
                      /\ run'[c].registering_user = run[c].registering_user
                      /\ run'[c].weblate_expires = run[c].weblate_expires
                      /\ run'[c].weblate_action
                           = run[c].weblate_action]_vars
    /\ [][\A c \in Clients :
            (Resumes(c) /\ run'[c].status = "running")
              => \E q \in partials :
                    /\ q.token = run'[c].token
                    /\ q.next_step <= StepIndex("ensure_valid")
                    /\ run'[c].registering_user = q.registering_user
                    /\ run'[c].weblate_expires = q.weblate_expires
                    /\ run'[c].weblate_action = q.weblate_action
                    /\ run'[c].req_user = NoUser
                         => run'[c].user = q.user]_vars
    /\ [][\A c \in Clients :
            (/\ AtStep(c, "ensure_valid")
             /\ run'[c] # run[c]
             /\ run[c].weblate_action \in Actions
             /\ current_user_of(run[c].user) = run[c].registering_user
             /\ now <= run[c].weblate_expires * TicksPerSecond)
              => Passes(c, "ensure_valid")]_vars

\* an activation of a signed-in user, suspended for validation and resumed by
\* the same user, is past ensure_valid at the very tick of its expiry
C20_Witness ==
    \E c \in Clients :
        /\ run[c].status = "running"
        /\ run[c].pc = StepIndex("ensure_valid") + 1
        /\ run[c].resumed
        /\ run[c].weblate_action = "activation"
        /\ run[c].user # NoUser
        /\ run[c].user = run[c].registering_user
        /\ now = run[c].weblate_expires * TicksPerSecond

====
